---------------------------- MODULE Spec2Model ----------------------------
(* A model of scripts/pharmgkb/drug_gene_relations/pharm.py: the conversion *)
(* of PharmGKB gene, drug and relationship rows into MCF node blocks.       *)
(*                                                                          *)
(* Python strings are sequences of one-character strings, so that split,    *)
(* strip, replace and count are computed character by character.            *)
EXTENDS Integers, Sequences, FiniteSets, TLC

VARIABLES
    call,                  \* the function under test and its arguments
    result,                \* what the call returned, raised and printed
    pc,                    \* position of main()
    genes_tsv,             \* rows of genes.tsv after fillna('')
    drugs_tsv,             \* rows of drugs.tsv + chemicals.tsv with their lookups
    relations_tsv,         \* rows of relationships.tsv after fillna('')
    drugs_df,              \* what get_drugs_df() returned
    row_i,                 \* rows of the current pass already applied
    genes_pharm_to_dcid,   \* main's gene identifier map
    drugs_pharm_to_dcid,   \* main's drug identifier map
    mcf_file,              \* the blocks written to pharmgkb.mcf, in order
    stdout                 \* the lines printed

vars == <<call, result, pc, genes_tsv, drugs_tsv, relations_tsv, drugs_df,
          row_i, genes_pharm_to_dcid, drugs_pharm_to_dcid, mcf_file, stdout>>

run_vars == <<pc, genes_tsv, drugs_tsv, relations_tsv, drugs_df, row_i,
              genes_pharm_to_dcid, drugs_pharm_to_dcid, mcf_file, stdout>>

-----------------------------------------------------------------------------
(* Bounds of the model.                                                     *)

MaxTextLen == 7
MaxLabels == 3
MaxCodes == 3
MaxPairs == 2
MaxRows == 4

(* Characters.                                                              *)
Q == "\""
COMMA == ","
COLON == ":"
SPACE == " "
NL == "\n"
EMPTY == <<>>

-----------------------------------------------------------------------------
(* Python's str methods.                                                    *)

\* the characters Python takes as whitespace; those a string of this module
\* cannot hold are written as their Python escapes
Whitespace ==
    { "\t", NL, "\\v", "\f", "\r", "\\x1c", "\\x1d", "\\x1e", "\\x1f", SPACE,
      "\\x85", "\\xa0", "\\u1680", "\\u2000", "\\u2001", "\\u2002", "\\u2003",
      "\\u2004", "\\u2005", "\\u2006", "\\u2007", "\\u2008", "\\u2009",
      "\\u200a", "\\u2028", "\\u2029", "\\u202f", "\\u205f", "\\u3000" }

\* ch.isspace()
IsSpace(ch) == ch \in Whitespace

\* s.count(ch)
Count(s, ch) == Cardinality({i \in 1..Len(s) : s[i] = ch})

\* s.replace(ch, '')
Remove(s, ch) == SelectSeq(s, LAMBDA x : x # ch)

SetMin(S) == CHOOSE x \in S : \A y \in S : x <= y
SetMax(S) == CHOOSE x \in S : \A y \in S : x >= y

\* s.strip()
Strip(s) ==
    LET keep == {i \in 1..Len(s) : ~IsSpace(s[i])}
    IN  IF keep = {} THEN EMPTY ELSE SubSeq(s, SetMin(keep), SetMax(keep))

\* s.strip(ch)
StripChar(s, ch) ==
    LET keep == {i \in 1..Len(s) : s[i] # ch}
    IN  IF keep = {} THEN EMPTY ELSE SubSeq(s, SetMin(keep), SetMax(keep))

\* s.split(ch): the pieces between the occurrences of ch, at least one piece
RECURSIVE Split(_, _)
Split(s, ch) ==
    LET at == {i \in 1..Len(s) : s[i] = ch}
    IN  IF at = {} THEN <<s>>
        ELSE LET i == SetMin(at)
             IN  <<SubSeq(s, 1, i - 1)>> \o Split(SubSeq(s, i + 1, Len(s)), ch)

\* sep.join(parts)
RECURSIVE Join(_, _)
Join(parts, sep) ==
    IF parts = <<>> THEN EMPTY
    ELSE IF Len(parts) = 1 THEN parts[1]
    ELSE parts[1] \o sep \o Join(Tail(parts), sep)

\* s.replace(old, ''), old a non-empty string
RECURSIVE RemoveSub(_, _)
RemoveSub(s, old) ==
    IF Len(s) < Len(old) THEN s
    ELSE IF SubSeq(s, 1, Len(old)) = old
         THEN RemoveSub(SubSeq(s, Len(old) + 1, Len(s)), old)
         ELSE <<s[1]>> \o RemoveSub(Tail(s), old)

\* the strings over an alphabet, up to a length
StringsUpTo(alphabet, n) == UNION {[1..k -> alphabet] : k \in 0..n}

-----------------------------------------------------------------------------
(* format_text_list                                                         *)

\* the loop body with the quote boundaries ignored: every token its own item
format_text_list_token_raw(st, prop_value, text_list) ==
    [st EXCEPT !.formatted_str =
        @ \o <<Q>> \o Strip(Remove(prop_value, Q)) \o <<Q, COMMA>>]

\* one pass of the loop body over a token of text_list.split(',')
format_text_list_token(st, prop_value, text_list) ==
    LET n == Count(prop_value, Q)
    IN  IF n = 0 /\ st.joining # EMPTY
          THEN [st EXCEPT !.joining = @ \o prop_value \o <<COMMA>>]
        ELSE IF n = 0 \/ n = 2
          THEN [st EXCEPT !.formatted_str =
                   @ \o <<Q>> \o Strip(Remove(prop_value, Q)) \o <<Q, COMMA>>]
        ELSE IF n = 1 /\ st.joining # EMPTY
          THEN [st EXCEPT !.formatted_str =
                   @ \o Strip(st.joining) \o Remove(prop_value, Q) \o <<Q, COMMA>>,
                          !.joining = EMPTY]
        ELSE IF n = 1
          THEN [st EXCEPT !.joining = prop_value \o <<COMMA>>]
        ELSE [st EXCEPT !.printed =
                   Append(@, [msg |-> "unexpected format: ", arg |-> text_list])]

RECURSIVE format_text_list_loop(_, _, _)
format_text_list_loop(st, tokens, text_list) ==
    IF tokens = <<>> THEN st
    ELSE format_text_list_loop(format_text_list_token(st, Head(tokens), text_list),
                               Tail(tokens), text_list)

\* format_text_list(text_list): the value returned and the lines printed
format_text_list(text_list) ==
    IF text_list = EMPTY THEN [ret |-> EMPTY, printed |-> <<>>]
    ELSE LET st == format_text_list_loop(
                       [formatted_str |-> EMPTY, joining |-> EMPTY, printed |-> <<>>],
                       Split(text_list, COMMA), text_list)
         IN  [ret |-> StripChar(st.formatted_str, COMMA), printed |-> st.printed]

-----------------------------------------------------------------------------
(* format_semicolon_list, format_bool                                       *)

format_semicolon_list(semi_list) ==
    IF semi_list = EMPTY THEN EMPTY
    ELSE LET parts == Split(semi_list, ";")
         IN  StripChar(
                 Join([i \in 1..Len(parts) |-> <<Q>> \o parts[i] \o <<Q, COMMA>>], EMPTY),
                 COMMA)

format_bool(text, true_val) ==
    IF text = true_val THEN <<"T","r","u","e">> ELSE EMPTY

-----------------------------------------------------------------------------
(* get_enum                                                                 *)

\* the loop with an unknown code dropped instead of raising
RECURSIVE get_enum_loop_dropping(_, _, _)
get_enum_loop_dropping(formatted_enums, keys, enum_dict) ==
    IF keys = <<>> THEN [raised |-> FALSE, formatted_enums |-> formatted_enums]
    ELSE IF Head(keys) \notin DOMAIN enum_dict
         THEN get_enum_loop_dropping(formatted_enums, Tail(keys), enum_dict)
    ELSE get_enum_loop_dropping(
             formatted_enums \o <<"d","c","i","d",":">> \o enum_dict[Head(keys)]
                 \o <<COMMA>>,
             Tail(keys), enum_dict)

\* the loop over key_list.split(','): enum_dict[key] raises KeyError
RECURSIVE get_enum_loop(_, _, _)
get_enum_loop(formatted_enums, keys, enum_dict) ==
    IF keys = <<>> THEN [raised |-> FALSE, formatted_enums |-> formatted_enums]
    ELSE IF Head(keys) \notin DOMAIN enum_dict
         THEN [raised |-> TRUE, formatted_enums |-> formatted_enums]
    ELSE get_enum_loop(
             formatted_enums \o <<"d","c","i","d",":">> \o enum_dict[Head(keys)]
                 \o <<COMMA>>,
             Tail(keys), enum_dict)

\* get_enum(key_list, enum_dict): the value returned, or raised
get_enum(key_list, enum_dict) ==
    IF key_list = EMPTY THEN [raised |-> FALSE, ret |-> EMPTY]
    ELSE LET r == get_enum_loop(EMPTY, Split(key_list, COMMA), enum_dict)
         IN  IF r.raised THEN [raised |-> TRUE, ret |-> EMPTY]
             ELSE [raised |-> FALSE, ret |-> StripChar(r.formatted_enums, COMMA)]

-----------------------------------------------------------------------------
(* get_xref_mcf                                                             *)

\* the value of a pair cut at its second colon
xref_prop_value_cut(xref_pair) ==
    IF Len(xref_pair) < 2 THEN EMPTY ELSE Strip(xref_pair[2])

\* ':'.join(xref_pair[1:]).strip()
xref_prop_value(xref_pair) == Strip(Join(Tail(xref_pair), <<COLON>>))

RECURSIVE get_xref_mcf_loop(_, _, _, _)
get_xref_mcf_loop(st, xref_list, xref_to_label, xrefs) ==
    IF xref_list = <<>> THEN st
    ELSE LET xref_pair == Split(Strip(Remove(Head(xref_list), Q)), COLON)
         IN  IF xref_pair[1] \notin DOMAIN xref_to_label
             THEN get_xref_mcf_loop(
                      [st EXCEPT !.printed = Append(@,
                          [msg |-> "unexpected format in gene xrefs:", arg |-> xrefs])],
                      Tail(xref_list), xref_to_label, xrefs)
             ELSE get_xref_mcf_loop(
                      [st EXCEPT !.xref_mcf = @ \o xref_to_label[xref_pair[1]]
                          \o <<COLON, SPACE, Q>> \o xref_prop_value(xref_pair)
                          \o <<Q, NL>>],
                      Tail(xref_list), xref_to_label, xrefs)

\* get_xref_mcf(xrefs, xref_to_label): the value returned and the lines printed
get_xref_mcf(xrefs, xref_to_label) ==
    IF xrefs = EMPTY THEN [ret |-> EMPTY, printed |-> <<>>]
    ELSE LET st == get_xref_mcf_loop([xref_mcf |-> EMPTY, printed |-> <<>>],
                                     Split(xrefs, COMMA), xref_to_label, xrefs)
         IN  [ret |-> st.xref_mcf, printed |-> st.printed]

-----------------------------------------------------------------------------
(* merge_chembls, get_drug_dcid, get_gene_dcids                             *)

\* the two null values a dataframe cell can hold; every other value is a str
NaN == <<"<NaN>">>
None == <<"<None>">>

\* pd.isnull(x)
pd_isnull(x) == x \in {NaN, None}

\* bool(x): NaN is true, None and '' are false
Truthy(x) == x \notin {None, EMPTY}

\* merge_chembls without the null test: a null first candidate is returned
merge_chembls_no_isnull(chembl1, chembl2, chembl3) ==
    IF Truthy(chembl1) THEN chembl1
    ELSE IF Truthy(chembl2) THEN chembl2
    ELSE IF Truthy(chembl3) THEN chembl3
    ELSE None

merge_chembls(chembl1, chembl2, chembl3) ==
    IF ~pd_isnull(chembl1) /\ Truthy(chembl1) THEN chembl1
    ELSE IF ~pd_isnull(chembl2) /\ Truthy(chembl2) THEN chembl2
    ELSE IF ~pd_isnull(chembl3) /\ Truthy(chembl3) THEN chembl3
    ELSE None

\* df.fillna('') on one cell
fillna(x) == IF pd_isnull(x) THEN EMPTY ELSE x

\* get_drug_dcid(row): 'bio/' + a value that is no str raises TypeError
get_drug_dcid(row) ==
    IF Truthy(row["Chembl ID"])
    THEN IF pd_isnull(row["Chembl ID"]) THEN [raised |-> TRUE, ret |-> EMPTY]
         ELSE [raised |-> FALSE, ret |-> <<"b","i","o","/">> \o row["Chembl ID"]]
    ELSE [raised |-> FALSE,
          ret |-> <<"b","i","o","/">> \o row["PharmGKB Accession Id"]]

\* get_gene_dcids with the second identifier built on the first prefix
get_gene_dcids_one_build(symbol) ==
    IF symbol # EMPTY
    THEN << <<"b","i","o","/","h","g","1","9","_">> \o symbol,
            <<"b","i","o","/","h","g","1","9","_">> \o symbol >>
    ELSE EMPTY

\* get_gene_dcids(symbol): the two identifiers, or '' (nothing to iterate)
get_gene_dcids(symbol) ==
    IF symbol # EMPTY
    THEN << <<"b","i","o","/","h","g","1","9","_">> \o symbol,
            <<"b","i","o","/","h","g","3","8","_">> \o symbol >>
    ELSE EMPTY

-----------------------------------------------------------------------------
(* get_compound_type                                                        *)

\* the recognised drug sub-types with one of them forgotten
drug_types_two ==
    { <<"D","r","u","g">>, <<"D","r","u","g"," ","C","l","a","s","s">> }

drug_types ==
    { <<"D","r","u","g">>, <<"D","r","u","g"," ","C","l","a","s","s">>,
      <<"P","r","o","d","r","u","g">> }

get_compound_type(compound_types) ==
    LET labels == Split(compound_types, COMMA)
        types == { IF Strip(Remove(labels[i], Q)) \in drug_types
                   THEN <<"d","c","i","d",":","D","r","u","g">>
                   ELSE <<"d","c","i","d",":","C","h","e","m","i","c","a","l",
                          "C","o","m","p","o","u","n","d">> : i \in 1..Len(labels) }
    IN  IF Cardinality(types) = 2
        THEN <<"d","c","s",":","C","h","e","m","i","c","a","l","C","o","m","p","o",
               "u","n","d",",","d","c","s",":","D","r","u","g">>
        ELSE CHOOSE t \in types : TRUE

-----------------------------------------------------------------------------
(* The tables of config.py: the enum codes and the cross-reference sources  *)
(* with the identifiers and property labels they stand for.                 *)

ASSOCIATION_ENUM_DICT ==
    (<<"a","s">> :> <<"A","s","s","o","c">>) @@
    (<<"n","a">> :> <<"N","o","t","A","s","s","o","c">>)

EVIDENCE_ENUM_DICT ==
    (<<"C","A">> :> <<"E","v","C","A">>) @@
    (<<"V","A">> :> <<"E","v","V","A">>)

GENE_XREF_PROP_DICT ==
    (<<"H","G","N","C">> :> <<"h","g","n","c","I","D">>) @@
    (<<"U","R","L">> :> <<"u","r","l">>)

DRUG_XREF_PROP_DICT ==
    (<<"K","E","G","G">> :> <<"k","e","g","g","I","D">>) @@
    (<<"U","R","L">> :> <<"u","r","l">>)

-----------------------------------------------------------------------------
(* mcf_template_filler.Filler: fill substitutes the placeholders supplied   *)
(* and fails when a placeholder declared required is not supplied.          *)

NoMcf == [template |-> "none"]

Filler_fill(template, required_vars, pv_map) ==
    IF required_vars \subseteq DOMAIN pv_map
    THEN [raised |-> FALSE, mcf |-> [template |-> template, pv |-> pv_map]]
    ELSE [raised |-> TRUE, mcf |-> NoMcf]

-----------------------------------------------------------------------------
(* get_gene_mcf, get_drug_mcf, get_relation_mcf: the node block returned    *)
(* (the filled template and the cross-reference lines appended to it), the  *)
(* mapping handed to the filler, the lines printed, or raised.              *)

\* the mapping left as it is, empty values included
RemoveEmpty_none(template_dict) == template_dict

\* {key: value for key, value in template_dict.items() if value}
RemoveEmpty(template_dict) ==
    [key \in {k \in DOMAIN template_dict : template_dict[k] # EMPTY}
        |-> template_dict[key]]

get_gene_mcf(row, gene_dcid) ==
    LET ncbi == format_text_list(row["NCBI Gene ID"])
        hgnc == format_text_list(row["HGNC ID"])
        ensembl == format_text_list(row["Ensembl Id"])
        alt_symb == format_text_list(row["Alternate Symbols"])
        template_dict == RemoveEmpty(
            ("dcid" :> gene_dcid) @@
            ("name" :> row["Name"]) @@
            ("symbol" :> row["Symbol"]) @@
            ("pharm_id" :> row["PharmGKB Accession Id"]) @@
            ("ncbi_ids" :> ncbi.ret) @@
            ("hgnc_ids" :> hgnc.ret) @@
            ("ensembl_ids" :> ensembl.ret) @@
            ("alt_symbols" :> alt_symb.ret))
        filled == Filler_fill("GENE_TEMPLATE", {"dcid"}, template_dict)
        xref == get_xref_mcf(row["Cross-references"], GENE_XREF_PROP_DICT)
        printed == ncbi.printed \o hgnc.printed \o ensembl.printed \o alt_symb.printed
    IN  IF filled.raised
        THEN [raised |-> TRUE, mcf |-> NoMcf, handed |-> <<template_dict>>,
              printed |-> printed]
        ELSE [raised |-> FALSE,
              mcf |-> [template |-> filled.mcf.template, pv |-> filled.mcf.pv,
                       xref_mcf |-> xref.ret],
              handed |-> <<template_dict>>,
              printed |-> printed \o xref.printed]

get_drug_mcf(row, drug_dcid) ==
    LET trade == format_text_list(row["Trade Names"])
        rx_id == format_text_list(row["RxNorm Identifiers"])
        atc == format_text_list(row["ATC Identifiers"])
        pubchem == format_text_list(row["PubChem Compound Identifiers"])
        compound_type == get_compound_type(row["Type"])
        dc_name == RemoveSub(drug_dcid, <<"b","i","o","/">>)
        template_dict == RemoveEmpty(
            ("dcid" :> drug_dcid) @@
            ("type" :> compound_type) @@
            ("dc_name" :> dc_name) @@
            ("name" :> row["Name"]) @@
            ("trade_names" :> trade.ret) @@
            ("smiles" :> row["SMILES"]) @@
            ("inchi" :> row["InChI"]) @@
            ("inchi_key" :> row["InChI Key"]) @@
            ("pharm_id" :> row["PharmGKB Accession Id"]) @@
            ("rx_ids" :> rx_id.ret) @@
            ("atc_ids" :> atc.ret) @@
            ("pubchem_compound_ids" :> pubchem.ret))
        filled == Filler_fill("DRUG_TEMPLATE", {"dcid", "type"}, template_dict)
        xref == get_xref_mcf(row["Cross-references"], DRUG_XREF_PROP_DICT)
        printed == trade.printed \o rx_id.printed \o atc.printed \o pubchem.printed
    IN  IF filled.raised
        THEN [raised |-> TRUE, mcf |-> NoMcf, handed |-> <<template_dict>>,
              printed |-> printed]
        ELSE [raised |-> FALSE,
              mcf |-> [template |-> filled.mcf.template, pv |-> filled.mcf.pv,
                       xref_mcf |-> xref.ret],
              handed |-> <<template_dict>>,
              printed |-> printed \o xref.printed]

get_relation_mcf(row, drug_dcid, gene_dcid) ==
    LET drug_ref == RemoveSub(drug_dcid, <<"b","i","o","/">>)
        gene_ref == RemoveSub(gene_dcid, <<"b","i","o","/">>)
        pubmed == format_semicolon_list(row["PMIDs"])
        pk_bool == format_bool(row["PK"], <<"P","K">>)
        pd_bool == format_bool(row["PD"], <<"P","D">>)
        assoc_enum == get_enum(row["Association"], ASSOCIATION_ENUM_DICT)
        evid_enum == get_enum(row["Evidence"], EVIDENCE_ENUM_DICT)
        template_dict == RemoveEmpty(
            ("dcid" :> <<"b","i","o","/","C","G","A","_">> \o drug_ref \o <<"_">>
                          \o gene_ref) @@
            ("name" :> <<"C","G","A","_">> \o drug_ref \o <<"_">> \o gene_ref) @@
            ("gene_dcid" :> gene_dcid) @@
            ("drug_dcid" :> drug_dcid) @@
            ("pubmed_ids" :> pubmed) @@
            ("pk_bool" :> pk_bool) @@
            ("pd_bool" :> pd_bool) @@
            ("assoc_enums" :> assoc_enum.ret) @@
            ("evid_enums" :> evid_enum.ret))
        filled == Filler_fill("RELATION_TEMPLATE", {"dcid", "gene_dcid", "drug_dcid"},
                              template_dict)
    IN  IF assoc_enum.raised \/ evid_enum.raised
        THEN [raised |-> TRUE, mcf |-> NoMcf, handed |-> <<>>, printed |-> <<>>]
        ELSE IF filled.raised
        THEN [raised |-> TRUE, mcf |-> NoMcf, handed |-> <<template_dict>>,
              printed |-> <<>>]
        ELSE [raised |-> FALSE,
              mcf |-> [template |-> filled.mcf.template, pv |-> filled.mcf.pv,
                       xref_mcf |-> EMPTY],
              handed |-> <<template_dict>>, printed |-> <<>>]

-----------------------------------------------------------------------------
(* write_gene_row, write_drug_row, write_relation_row: the blocks written   *)
(* to the file, the identifier map as left, the lines printed, or raised.   *)

\* the loop `for gene_dcid in gene_dcids` of write_gene_row
RECURSIVE write_gene_row_loop(_, _, _)
write_gene_row_loop(st, row, gene_dcids) ==
    IF gene_dcids = <<>> THEN st
    ELSE LET r == get_gene_mcf(row, Head(gene_dcids))
         IN  IF r.raised
             THEN [st EXCEPT !.raised = TRUE, !.printed = @ \o r.printed]
             ELSE write_gene_row_loop(
                      [st EXCEPT !.written = Append(@, r.mcf),
                                 !.printed = @ \o r.printed],
                      row, Tail(gene_dcids))

write_gene_row(row, pharm_to_dcid) ==
    LET gene_dcids == get_gene_dcids(row["Symbol"])
        stored == (row["PharmGKB Accession Id"] :> gene_dcids) @@ pharm_to_dcid
    IN  write_gene_row_loop(
            [pharm_to_dcid |-> stored, written |-> <<>>, printed |-> <<>>,
             raised |-> FALSE],
            row, gene_dcids)

\* write_drug_row storing 'bio/' + the accession id whatever identifier the
\* block is written under
write_drug_row_stored_by_id(row, pharm_to_dcid) ==
    LET drug_dcid == get_drug_dcid(row)
        stored == (row["PharmGKB Accession Id"] :>
                      <<"b","i","o","/">> \o row["PharmGKB Accession Id"])
                  @@ pharm_to_dcid
        r == get_drug_mcf(row, drug_dcid.ret)
    IN  IF drug_dcid.raised
        THEN [pharm_to_dcid |-> pharm_to_dcid, written |-> <<>>, printed |-> <<>>,
              raised |-> TRUE]
        ELSE IF r.raised
        THEN [pharm_to_dcid |-> stored, written |-> <<>>, printed |-> r.printed,
              raised |-> TRUE]
        ELSE [pharm_to_dcid |-> stored, written |-> <<r.mcf>>, printed |-> r.printed,
              raised |-> FALSE]

write_drug_row(row, pharm_to_dcid) ==
    LET drug_dcid == get_drug_dcid(row)
        stored == (row["PharmGKB Accession Id"] :> drug_dcid.ret) @@ pharm_to_dcid
        r == get_drug_mcf(row, drug_dcid.ret)
    IN  IF drug_dcid.raised
        THEN [pharm_to_dcid |-> pharm_to_dcid, written |-> <<>>, printed |-> <<>>,
              raised |-> TRUE]
        ELSE IF r.raised
        THEN [pharm_to_dcid |-> stored, written |-> <<>>, printed |-> r.printed,
              raised |-> TRUE]
        ELSE [pharm_to_dcid |-> stored, written |-> <<r.mcf>>, printed |-> r.printed,
              raised |-> FALSE]

\* the loop `for gene_dcid in gene_dcids` of write_relation_row
RECURSIVE write_relation_row_loop(_, _, _, _)
write_relation_row_loop(st, row, drug_dcid, gene_dcids) ==
    IF gene_dcids = <<>> THEN st
    ELSE LET r == get_relation_mcf(row, drug_dcid, Head(gene_dcids))
         IN  IF r.raised
             THEN [st EXCEPT !.raised = TRUE]
             ELSE write_relation_row_loop([st EXCEPT !.written = Append(@, r.mcf)],
                                          row, drug_dcid, Tail(gene_dcids))

\* write_relation_row without the test of the gene id: the lookup raises
write_relation_row_unchecked(row, drug_is_first, genes_map, drugs_map) ==
    LET drug_pharm == IF drug_is_first THEN row["Entity1_id"] ELSE row["Entity2_id"]
        gene_pharm == IF drug_is_first THEN row["Entity2_id"] ELSE row["Entity1_id"]
    IN  IF drug_pharm \notin DOMAIN drugs_map
        THEN [written |-> <<>>, raised |-> FALSE,
              printed |-> <<[msg |-> "unrecognized drug pharm id: ",
                             arg |-> drug_pharm]>>]
        ELSE IF gene_pharm \notin DOMAIN genes_map
        THEN [written |-> <<>>, raised |-> TRUE, printed |-> <<>>]
        ELSE write_relation_row_loop(
                 [written |-> <<>>, raised |-> FALSE, printed |-> <<>>],
                 row, drugs_map[drug_pharm], genes_map[gene_pharm])

\* write_relation_row taking the drug id from Entity1_id whatever the order
write_relation_row_drug_first(row, drug_is_first, genes_map, drugs_map) ==
    LET drug_pharm == row["Entity1_id"]
        gene_pharm == row["Entity2_id"]
    IN  IF drug_pharm \notin DOMAIN drugs_map
        THEN [written |-> <<>>, raised |-> FALSE,
              printed |-> <<[msg |-> "unrecognized drug pharm id: ",
                             arg |-> drug_pharm]>>]
        ELSE IF gene_pharm \notin DOMAIN genes_map
        THEN [written |-> <<>>, raised |-> FALSE,
              printed |-> <<[msg |-> "unrecognized gene pharm id: ",
                             arg |-> gene_pharm]>>]
        ELSE write_relation_row_loop(
                 [written |-> <<>>, raised |-> FALSE, printed |-> <<>>],
                 row, drugs_map[drug_pharm], genes_map[gene_pharm])

write_relation_row(row, drug_is_first, genes_map, drugs_map) ==
    LET drug_pharm == IF drug_is_first THEN row["Entity1_id"] ELSE row["Entity2_id"]
        gene_pharm == IF drug_is_first THEN row["Entity2_id"] ELSE row["Entity1_id"]
    IN  IF drug_pharm \notin DOMAIN drugs_map
        THEN [written |-> <<>>, raised |-> FALSE,
              printed |-> <<[msg |-> "unrecognized drug pharm id: ",
                             arg |-> drug_pharm]>>]
        ELSE IF gene_pharm \notin DOMAIN genes_map
        THEN [written |-> <<>>, raised |-> FALSE,
              printed |-> <<[msg |-> "unrecognized gene pharm id: ",
                             arg |-> gene_pharm]>>]
        ELSE write_relation_row_loop(
                 [written |-> <<>>, raised |-> FALSE, printed |-> <<>>],
                 row, drugs_map[drug_pharm], genes_map[gene_pharm])

-----------------------------------------------------------------------------
(* get_drugs_df: the drug and chemical rows without duplicates, the three   *)
(* looked-up ChEMBL ids merged into 'Chembl ID', every null cell made ''.   *)

\* combined_df.drop_duplicates(): the first of equal rows is kept
RECURSIVE drop_duplicates(_)
drop_duplicates(rows) ==
    IF rows = <<>> THEN <<>>
    ELSE LET front == drop_duplicates(SubSeq(rows, 1, Len(rows) - 1))
             last == rows[Len(rows)]
         IN  IF \E i \in 1..Len(front) : front[i] = last THEN front
             ELSE Append(front, last)

append_chembls_row(row) ==
    ("Chembl ID" :> merge_chembls(row["Chembl1"], row["Chembl2"], row["Chembl3"]))
        @@ row

get_drugs_df(combined_df) ==
    LET unique == drop_duplicates(combined_df)
    IN  [i \in 1..Len(unique) |->
            LET row == append_chembls_row(unique[i])
            IN  [col \in DOMAIN row |-> fillna(row[col])]]

\* relation_df[(Entity1_type == type1) & (Entity2_type == type2)]
select_relations(relation_df, type1, type2) ==
    SelectSeq(relation_df,
              LAMBDA row : row["Entity1_type"] = type1 /\ row["Entity2_type"] = type2)

Chemical == <<"C","h","e","m","i","c","a","l">>
Gene == <<"G","e","n","e">>

drug_gene_df == select_relations(relations_tsv, Chemical, Gene)
gene_drug_df == select_relations(relations_tsv, Gene, Chemical)

-----------------------------------------------------------------------------
(* The state of a function under test, and of a run that has not started.   *)

NoCall == [fn |-> "none"]
NoResult == [done |-> FALSE]

RunIdle ==
    /\ pc = "idle"
    /\ genes_tsv = <<>>
    /\ drugs_tsv = <<>>
    /\ relations_tsv = <<>>
    /\ drugs_df = <<>>
    /\ row_i = 0
    /\ genes_pharm_to_dcid = <<>>
    /\ drugs_pharm_to_dcid = <<>>
    /\ mcf_file = <<>>
    /\ stdout = <<>>

-----------------------------------------------------------------------------
(* format_text_list on every string over a small alphabet.                  *)

TextAlphabet == {"a", COMMA, Q, SPACE}

InitFormat ==
    /\ call \in {[fn |-> "format_text_list", text_list |-> t] :
                    t \in StringsUpTo(TextAlphabet, MaxTextLen)}
    /\ result = NoResult
    /\ RunIdle

CallFormatTextList ==
    /\ call.fn = "format_text_list"
    /\ ~result.done
    /\ LET r == format_text_list(call.text_list)
       IN  result' = [done |-> TRUE, raised |-> FALSE, ret |-> r.ret,
                      printed |-> r.printed]
    /\ UNCHANGED <<call, run_vars>>

NextFormat == CallFormatTextList

SpecFormat == InitFormat /\ [][NextFormat]_vars

-----------------------------------------------------------------------------
(* Quoted lists, read item by item: an item is bare (no quote, no comma) or  *)
(* wrapped in one pair of double quotes, and items are separated by commas.  *)

RECURSIVE ParseItems(_)
ParseItems(s) ==
    IF s # EMPTY /\ s[1] = Q
    THEN LET close == {i \in 2..Len(s) : s[i] = Q}
         IN  IF close = {} THEN [ok |-> FALSE, items |-> <<>>]
             ELSE LET j == SetMin(close)
                      item == [quoted |-> TRUE, content |-> SubSeq(s, 2, j - 1)]
                  IN  IF j = Len(s) THEN [ok |-> TRUE, items |-> <<item>>]
                      ELSE IF s[j + 1] # COMMA THEN [ok |-> FALSE, items |-> <<>>]
                      ELSE LET rest == ParseItems(SubSeq(s, j + 2, Len(s)))
                           IN  [ok |-> rest.ok, items |-> <<item>> \o rest.items]
    ELSE LET stop == {i \in 1..Len(s) : s[i] \in {COMMA, Q}}
         IN  IF stop = {}
             THEN [ok |-> TRUE, items |-> <<[quoted |-> FALSE, content |-> s]>>]
             ELSE LET j == SetMin(stop)
                      item == [quoted |-> FALSE, content |-> SubSeq(s, 1, j - 1)]
                  IN  IF s[j] = Q THEN [ok |-> FALSE, items |-> <<>>]
                      ELSE LET rest == ParseItems(SubSeq(s, j + 1, Len(s)))
                           IN  [ok |-> rest.ok, items |-> <<item>> \o rest.items]

HasChar(s, ch) == \E i \in 1..Len(s) : s[i] = ch

\* the items, each wrapped in one pair of double quotes, joined by commas
QuotedList(contents) ==
    Join([i \in 1..Len(contents) |-> <<Q>> \o contents[i] \o <<Q>>], <<COMMA>>)

FormatCalled == call.fn = "format_text_list" /\ result.done

\* C2, as stated: on a well-formed list format_text_list returns exactly the
\* same items in the same order, each in one pair of double quotes.
C2_SameItems ==
    FormatCalled /\ call.text_list # EMPTY /\ ParseItems(call.text_list).ok =>
        LET items == ParseItems(call.text_list).items
        IN  /\ ~result.raised
            /\ result.ret = QuotedList([i \in 1..Len(items) |-> items[i].content])

\* what format_text_list keeps of an item: an item with a comma inside its
\* quotes unchanged, any other item without its surrounding whitespace
KeptContent(item) ==
    IF HasChar(item.content, COMMA) THEN item.content ELSE Strip(item.content)

\* C2, amended: on a non-empty well-formed list format_text_list returns the
\* items in the same order, one output item per input item, each in one pair
\* of double quotes and joined by commas; an item with a comma inside its
\* quotes is returned unchanged, every other item with its leading and
\* trailing whitespace removed.
C2_SameItemsTrimmed ==
    FormatCalled /\ call.text_list # EMPTY /\ ParseItems(call.text_list).ok =>
        LET items == ParseItems(call.text_list).items
        IN  /\ ~result.raised
            /\ result.printed = <<>>
            /\ result.ret = QuotedList([i \in 1..Len(items) |-> KeptContent(items[i])])
            /\ LET out == ParseItems(result.ret)
               IN  out.ok /\ Len(out.items) = Len(items)
                          /\ \A i \in 1..Len(out.items) : out.items[i].quoted

\* a list of two items or more, one of them quoted with a comma inside, has
\* been formatted
C2_Witness ==
    /\ FormatCalled
    /\ ParseItems(call.text_list).ok
    /\ LET items == ParseItems(call.text_list).items
       IN  /\ Len(items) >= 2
           /\ \E i \in 1..Len(items) : items[i].quoted /\ HasChar(items[i].content, COMMA)
           /\ \E i \in 1..Len(items) : ~items[i].quoted /\ items[i].content # EMPTY
    /\ result.ret # EMPTY

\* a token with more than two quotes, or a quote opened and never closed
Malformed(text_list) ==
    \/ LET tokens == Split(text_list, COMMA)
       IN  \E i \in 1..Len(tokens) : Count(tokens[i], Q) > 2
    \/ Count(text_list, Q) % 2 = 1

\* C8, as stated: format_text_list never raises, an empty input gives an empty
\* output, and every malformed input (a token with more than two quotes, or a
\* quote opened and never closed) is logged.
C8_MalformedLogged ==
    FormatCalled =>
        /\ ~result.raised
        /\ (call.text_list = EMPTY => result.ret = EMPTY)
        /\ (Malformed(call.text_list) => result.printed # <<>>)

-----------------------------------------------------------------------------
(* The rows a run reads. Identifiers: genes G1, G2, drugs D1, D2; G9 and D9 *)
(* are in no table.                                                         *)

G1 == <<"G","1">>
G2 == <<"G","2">>
G9 == <<"G","9">>
D1 == <<"D","1">>
D2 == <<"D","2">>
D9 == <<"D","9">>

GeneRow(pharm_id, symbol, name, ncbi, alt_symbols, xrefs) ==
    ("PharmGKB Accession Id" :> pharm_id) @@ ("Symbol" :> symbol) @@
    ("Name" :> name) @@ ("NCBI Gene ID" :> ncbi) @@ ("HGNC ID" :> EMPTY) @@
    ("Ensembl Id" :> EMPTY) @@ ("Alternate Symbols" :> alt_symbols) @@
    ("Cross-references" :> xrefs)

\* two rows with the same accession id and different symbols, and a row
\* without symbol
GeneRows ==
    { GeneRow(G1, <<"A">>, <<"a">>, <<"1">>, <<Q, "a", COMMA, "a", Q>>,
              <<Q,"H","G","N","C",":","1",Q,COMMA,Q,"Z","Z",":","1",Q>>),
      GeneRow(G1, <<"B">>, EMPTY, EMPTY, EMPTY, EMPTY),
      GeneRow(G2, EMPTY, <<"a">>, EMPTY, EMPTY, EMPTY) }

DrugRow(pharm_id, name, types, trade, chembl1, chembl2, chembl3, xrefs) ==
    ("PharmGKB Accession Id" :> pharm_id) @@ ("Name" :> name) @@
    ("Type" :> types) @@ ("Trade Names" :> trade) @@
    ("RxNorm Identifiers" :> EMPTY) @@ ("ATC Identifiers" :> EMPTY) @@
    ("PubChem Compound Identifiers" :> EMPTY) @@ ("SMILES" :> EMPTY) @@
    ("InChI" :> EMPTY) @@ ("InChI Key" :> NaN) @@
    ("Chembl1" :> chembl1) @@ ("Chembl2" :> chembl2) @@ ("Chembl3" :> chembl3) @@
    ("Cross-references" :> xrefs)

\* a drug with a ChEMBL id, a row of the same accession id without any, and a
\* compound whose ChEMBL id comes from its PubChem id
DrugRows ==
    { DrugRow(D1, <<"d">>, <<"D","r","u","g">>, <<Q,"t",Q>>,
              <<"C","A">>, EMPTY, NaN, <<"K","E","G","G",":","1">>),
      DrugRow(D1, EMPTY, <<"D","r","u","g",COMMA,Q,"I","o","n",Q>>, EMPTY,
              EMPTY, EMPTY, EMPTY, EMPTY),
      DrugRow(D2, <<"e">>, <<"I","o","n">>, EMPTY,
              NaN, <<"C","B">>, <<"C","A">>, EMPTY) }

RelationRow(type1, id1, type2, id2, evidence, association, pk, pd, pmids) ==
    ("Entity1_id" :> id1) @@ ("Entity1_type" :> type1) @@
    ("Entity2_id" :> id2) @@ ("Entity2_type" :> type2) @@
    ("Evidence" :> evidence) @@ ("Association" :> association) @@
    ("PK" :> pk) @@ ("PD" :> pd) @@ ("PMIDs" :> pmids)

\* a drug-gene row, a gene-drug row, a row with an unknown drug, a row with
\* an unknown gene, a row with an unknown association code, a gene-gene row,
\* and a row about the gene without symbol
RelationRows ==
    { RelationRow(Chemical, D1, Gene, G1, <<"C","A",COMMA,"V","A">>, <<"a","s">>,
                  <<"P","K">>, EMPTY, <<"1",";","2">>),
      RelationRow(Gene, G1, Chemical, D1, <<"C","A">>, <<"n","a">>,
                  EMPTY, <<"P","D">>, EMPTY),
      RelationRow(Chemical, D9, Gene, G1, EMPTY, <<"a","s">>, EMPTY, EMPTY, EMPTY),
      RelationRow(Gene, G9, Chemical, D1, EMPTY, <<"a","s">>, EMPTY, EMPTY, EMPTY),
      RelationRow(Chemical, D1, Gene, G1, EMPTY, <<"z","z">>, EMPTY, EMPTY, EMPTY),
      RelationRow(Gene, G1, Gene, G2, EMPTY, <<"a","s">>, EMPTY, EMPTY, EMPTY),
      RelationRow(Chemical, D2, Gene, G2, EMPTY, EMPTY, EMPTY, EMPTY, EMPTY) }

-----------------------------------------------------------------------------
(* main: one run over the three tables.                                     *)

Printed(msg) == [msg |-> msg, arg |-> EMPTY]

Init ==
    /\ call = NoCall
    /\ result = NoResult
    /\ pc = "start"
    /\ \E g \in 0..MaxRows : \E d \in 0..(MaxRows - g) : \E r \in 0..(MaxRows - g - d) :
          /\ genes_tsv \in [1..g -> GeneRows]
          /\ drugs_tsv \in [1..d -> DrugRows]
          /\ relations_tsv \in [1..r -> RelationRows]
    /\ drugs_df = <<>>
    /\ row_i = 0
    /\ genes_pharm_to_dcid = <<>>
    /\ drugs_pharm_to_dcid = <<>>
    /\ mcf_file = <<>>
    /\ stdout = <<>>

\* download, open('pharmgkb.mcf', 'w'), read genes.tsv
Open ==
    /\ pc = "start"
    /\ pc' = "genes"
    /\ mcf_file' = <<>>
    /\ genes_pharm_to_dcid' = <<>>
    /\ row_i' = 0
    /\ stdout' = Append(stdout, Printed("writing gene nodes to mcf...."))
    /\ UNCHANGED <<call, result, genes_tsv, drugs_tsv, relations_tsv, drugs_df,
                   drugs_pharm_to_dcid>>

\* genes_df.apply(write_gene_row), one row
WriteGeneRow ==
    /\ pc = "genes"
    /\ row_i < Len(genes_tsv)
    /\ LET r == write_gene_row(genes_tsv[row_i + 1], genes_pharm_to_dcid)
       IN  /\ genes_pharm_to_dcid' = r.pharm_to_dcid
           /\ mcf_file' = mcf_file \o r.written
           /\ stdout' = stdout \o r.printed
           /\ pc' = IF r.raised THEN "aborted" ELSE pc
    /\ row_i' = row_i + 1
    /\ UNCHANGED <<call, result, genes_tsv, drugs_tsv, relations_tsv, drugs_df,
                   drugs_pharm_to_dcid>>

\* drugs_pharm_to_dcid = {}; drugs_df = get_drugs_df()
GetDrugsDf ==
    /\ pc = "genes"
    /\ row_i = Len(genes_tsv)
    /\ drugs_pharm_to_dcid' = <<>>
    /\ drugs_df' = get_drugs_df(drugs_tsv)
    /\ pc' = "drugs"
    /\ row_i' = 0
    /\ stdout' = Append(stdout, Printed("writing drug nodes to mcf...."))
    /\ UNCHANGED <<call, result, genes_tsv, drugs_tsv, relations_tsv,
                   genes_pharm_to_dcid, mcf_file>>

\* drugs_df.apply(write_drug_row), one row
WriteDrugRow ==
    /\ pc = "drugs"
    /\ row_i < Len(drugs_df)
    /\ LET r == write_drug_row(drugs_df[row_i + 1], drugs_pharm_to_dcid)
       IN  /\ drugs_pharm_to_dcid' = r.pharm_to_dcid
           /\ mcf_file' = mcf_file \o r.written
           /\ stdout' = stdout \o r.printed
           /\ pc' = IF r.raised THEN "aborted" ELSE pc
    /\ row_i' = row_i + 1
    /\ UNCHANGED <<call, result, genes_tsv, drugs_tsv, relations_tsv, drugs_df,
                   genes_pharm_to_dcid>>

\* read relationships.tsv and select the (Chemical, Gene) rows
ReadRelations ==
    /\ pc = "drugs"
    /\ row_i = Len(drugs_df)
    /\ pc' = "drug_gene"
    /\ row_i' = 0
    /\ stdout' = Append(stdout,
          Printed("writing ChemicalCompoundGeneAssociation nodes to mcf...."))
    /\ UNCHANGED <<call, result, genes_tsv, drugs_tsv, relations_tsv, drugs_df,
                   genes_pharm_to_dcid, drugs_pharm_to_dcid, mcf_file>>

\* drug_gene_df.apply(write_relation_row, drug_first = True), one row
WriteDrugGeneRow ==
    /\ pc = "drug_gene"
    /\ row_i < Len(drug_gene_df)
    /\ LET r == write_relation_row(drug_gene_df[row_i + 1], TRUE,
                                   genes_pharm_to_dcid, drugs_pharm_to_dcid)
       IN  /\ mcf_file' = mcf_file \o r.written
           /\ stdout' = stdout \o r.printed
           /\ pc' = IF r.raised THEN "aborted" ELSE pc
    /\ row_i' = row_i + 1
    /\ UNCHANGED <<call, result, genes_tsv, drugs_tsv, relations_tsv, drugs_df,
                   genes_pharm_to_dcid, drugs_pharm_to_dcid>>

\* select the (Gene, Chemical) rows
SelectGeneDrug ==
    /\ pc = "drug_gene"
    /\ row_i = Len(drug_gene_df)
    /\ pc' = "gene_drug"
    /\ row_i' = 0
    /\ UNCHANGED <<call, result, genes_tsv, drugs_tsv, relations_tsv, drugs_df,
                   genes_pharm_to_dcid, drugs_pharm_to_dcid, mcf_file, stdout>>

\* gene_drug_df.apply(write_relation_row, drug_first = False), one row
WriteGeneDrugRow ==
    /\ pc = "gene_drug"
    /\ row_i < Len(gene_drug_df)
    /\ LET r == write_relation_row(gene_drug_df[row_i + 1], FALSE,
                                   genes_pharm_to_dcid, drugs_pharm_to_dcid)
       IN  /\ mcf_file' = mcf_file \o r.written
           /\ stdout' = stdout \o r.printed
           /\ pc' = IF r.raised THEN "aborted" ELSE pc
    /\ row_i' = row_i + 1
    /\ UNCHANGED <<call, result, genes_tsv, drugs_tsv, relations_tsv, drugs_df,
                   genes_pharm_to_dcid, drugs_pharm_to_dcid>>

\* the file closed while rows of the last pass are still to be processed
Close_early ==
    /\ pc = "gene_drug"
    /\ pc' = "done"
    /\ UNCHANGED <<call, result, genes_tsv, drugs_tsv, relations_tsv, drugs_df, row_i,
                   genes_pharm_to_dcid, drugs_pharm_to_dcid, mcf_file, stdout>>

\* mcf_file.close()
Close ==
    /\ pc = "gene_drug"
    /\ row_i = Len(gene_drug_df)
    /\ pc' = "done"
    /\ UNCHANGED <<call, result, genes_tsv, drugs_tsv, relations_tsv, drugs_df, row_i,
                   genes_pharm_to_dcid, drugs_pharm_to_dcid, mcf_file, stdout>>

Next ==
    \/ Open
    \/ WriteGeneRow
    \/ GetDrugsDf
    \/ WriteDrugRow
    \/ ReadRelations
    \/ WriteDrugGeneRow
    \/ SelectGeneDrug
    \/ WriteGeneDrugRow
    \/ Close

Spec == Init /\ [][Next]_vars

-----------------------------------------------------------------------------
(* Inputs of the functions under test.                                      *)

\* the sequences over a set of items, up to a length
SeqsUpTo(items, n) == UNION {[1..k -> items] : k \in 0..n}

-----------------------------------------------------------------------------
(* merge_chembls and get_drug_dcid on every combination of candidates: one  *)
(* drug row, its 'Chembl ID' merged and filled as get_drugs_df does.        *)

ChemblCandidates == {NaN, None, EMPTY, <<"C","A">>, <<"C","B">>}
PharmIds == {<<"P","1">>, <<"P","2">>}

InitResolve ==
    /\ call \in {[fn |-> "get_drug_dcid", chembl1 |-> c1, chembl2 |-> c2,
                  chembl3 |-> c3, pharm_id |-> pa] :
                    c1 \in ChemblCandidates, c2 \in ChemblCandidates,
                    c3 \in ChemblCandidates, pa \in PharmIds}
    /\ result = NoResult
    /\ RunIdle

CallGetDrugDcid ==
    /\ call.fn = "get_drug_dcid"
    /\ ~result.done
    /\ LET merged == merge_chembls(call.chembl1, call.chembl2, call.chembl3)
           row == ("Chembl ID" :> fillna(merged)) @@
                  ("PharmGKB Accession Id" :> call.pharm_id)
           r == get_drug_dcid(row)
       IN  result' = [done |-> TRUE, raised |-> r.raised, ret |-> r.ret,
                      merged |-> merged, printed |-> <<>>]
    /\ UNCHANGED <<call, run_vars>>

NextResolve == CallGetDrugDcid

SpecResolve == InitResolve /\ [][NextResolve]_vars

-----------------------------------------------------------------------------
(* get_compound_type on every short list of type labels.                    *)

TypeLabels ==
    { <<"D","r","u","g">>, <<"D","r","u","g"," ","C","l","a","s","s">>,
      <<"P","r","o","d","r","u","g">>, <<"M","e","t","a","b","o","l","i","t","e">>,
      <<"I","o","n">> }

InitType ==
    /\ call \in {[fn |-> "get_compound_type", labels |-> ls,
                  compound_types |-> Join(ls, <<COMMA>>)] :
                    ls \in SeqsUpTo(TypeLabels, MaxLabels)}
    /\ result = NoResult
    /\ RunIdle

CallGetCompoundType ==
    /\ call.fn = "get_compound_type"
    /\ ~result.done
    /\ result' = [done |-> TRUE, raised |-> FALSE,
                  ret |-> get_compound_type(call.compound_types), printed |-> <<>>]
    /\ UNCHANGED <<call, run_vars>>

NextType == CallGetCompoundType

SpecType == InitType /\ [][NextType]_vars

-----------------------------------------------------------------------------
(* get_enum on every short list of codes, with either table of config.py.   *)

EnumCodes == {<<"a","s">>, <<"n","a">>, <<"C","A">>, <<"z","z">>}

InitEnum ==
    /\ call \in {[fn |-> "get_enum", codes |-> cs, key_list |-> Join(cs, <<COMMA>>),
                  enum_dict |-> d] :
                    cs \in SeqsUpTo(EnumCodes, MaxCodes),
                    d \in {ASSOCIATION_ENUM_DICT, EVIDENCE_ENUM_DICT}}
    /\ result = NoResult
    /\ RunIdle

CallGetEnum ==
    /\ call.fn = "get_enum"
    /\ ~result.done
    /\ LET r == get_enum(call.key_list, call.enum_dict)
       IN  result' = [done |-> TRUE, raised |-> r.raised, ret |-> r.ret,
                      printed |-> <<>>]
    /\ UNCHANGED <<call, run_vars>>

NextEnum == CallGetEnum

SpecEnum == InitEnum /\ [][NextEnum]_vars

-----------------------------------------------------------------------------
(* get_xref_mcf on every short list of source:value pairs, each pair bare   *)
(* or enclosed in double quotes as in the PharmGKB files.                   *)

XrefSources == {<<"H","G","N","C">>, <<"U","R","L">>, <<"Z","Z">>}
XrefValues == {<<"1">>, <<"u",":","1">>, <<" ","1">>, <<"1","\r">>}
XrefPairs == [src : XrefSources, val : XrefValues, quoted : BOOLEAN]

PairText(pair) ==
    IF pair.quoted THEN <<Q>> \o pair.src \o <<COLON>> \o pair.val \o <<Q>>
    ELSE pair.src \o <<COLON>> \o pair.val

InitXref ==
    /\ call \in {[fn |-> "get_xref_mcf", pairs |-> ps,
                  xrefs |-> Join([i \in 1..Len(ps) |-> PairText(ps[i])], <<COMMA>>)] :
                    ps \in SeqsUpTo(XrefPairs, MaxPairs)}
    /\ result = NoResult
    /\ RunIdle

CallGetXrefMcf ==
    /\ call.fn = "get_xref_mcf"
    /\ ~result.done
    /\ LET r == get_xref_mcf(call.xrefs, GENE_XREF_PROP_DICT)
       IN  result' = [done |-> TRUE, raised |-> FALSE, ret |-> r.ret,
                      printed |-> r.printed]
    /\ UNCHANGED <<call, run_vars>>

NextXref == CallGetXrefMcf

SpecXref == InitXref /\ [][NextXref]_vars

-----------------------------------------------------------------------------
(* get_gene_mcf, get_drug_mcf and get_relation_mcf on the rows of a run,    *)
(* with identifiers that are empty or not.                                  *)

GeneDcidArgs == {EMPTY} \cup UNION {{d[1], d[2]} : d \in {get_gene_dcids(<<"A">>)}}
DrugDcidArgs == {EMPTY, <<"b","i","o","/","C","A">>, <<"b","i","o","/","D","1">>}

DrugDfRows ==
    {get_drugs_df(<<row>>)[1] : row \in DrugRows}

InitEmit ==
    /\ call \in
         {[fn |-> "get_gene_mcf", row |-> row, gene_dcid |-> g, drug_dcid |-> EMPTY] :
             row \in GeneRows, g \in GeneDcidArgs}
         \cup
         {[fn |-> "get_drug_mcf", row |-> row, gene_dcid |-> EMPTY, drug_dcid |-> d] :
             row \in DrugDfRows, d \in DrugDcidArgs}
         \cup
         {[fn |-> "get_relation_mcf", row |-> row, gene_dcid |-> g, drug_dcid |-> d] :
             row \in RelationRows, g \in GeneDcidArgs, d \in DrugDcidArgs}
    /\ result = NoResult
    /\ RunIdle

CallGetGeneMcf ==
    /\ call.fn = "get_gene_mcf"
    /\ ~result.done
    /\ LET r == get_gene_mcf(call.row, call.gene_dcid)
       IN  result' = [done |-> TRUE, raised |-> r.raised, ret |-> r.mcf,
                      printed |-> r.printed, handed |-> r.handed]
    /\ UNCHANGED <<call, run_vars>>

CallGetDrugMcf ==
    /\ call.fn = "get_drug_mcf"
    /\ ~result.done
    /\ LET r == get_drug_mcf(call.row, call.drug_dcid)
       IN  result' = [done |-> TRUE, raised |-> r.raised, ret |-> r.mcf,
                      printed |-> r.printed, handed |-> r.handed]
    /\ UNCHANGED <<call, run_vars>>

CallGetRelationMcf ==
    /\ call.fn = "get_relation_mcf"
    /\ ~result.done
    /\ LET r == get_relation_mcf(call.row, call.drug_dcid, call.gene_dcid)
       IN  result' = [done |-> TRUE, raised |-> r.raised, ret |-> r.mcf,
                      printed |-> r.printed, handed |-> r.handed]
    /\ UNCHANGED <<call, run_vars>>

NextEmit ==
    \/ CallGetGeneMcf
    \/ CallGetDrugMcf
    \/ CallGetRelationMcf

SpecEmit == InitEmit /\ [][NextEmit]_vars

-----------------------------------------------------------------------------
(* Identifier resolution.                                                   *)

NonEmptyCandidate(x) == x \notin {NaN, None, EMPTY}

ResolveCalled == call.fn = "get_drug_dcid" /\ result.done

\* C1: merge_chembls returns the highest-priority non-empty candidate whatever
\* the lower-priority ones are, and get_drug_dcid returns 'bio/' + it; with all
\* three empty or null get_drug_dcid returns 'bio/' + the PharmGKB accession
\* id; nothing is raised.
C1_HighestPriorityCandidate ==
    ResolveCalled =>
        LET cands == <<call.chembl1, call.chembl2, call.chembl3>>
        IN  /\ ~result.raised
            /\ \A i \in 1..3 :
                 (NonEmptyCandidate(cands[i])
                    /\ \A j \in 1..(i - 1) : ~NonEmptyCandidate(cands[j]))
                 => /\ result.merged = cands[i]
                    /\ result.ret = <<"b","i","o","/">> \o cands[i]
            /\ (\A i \in 1..3 : ~NonEmptyCandidate(cands[i]))
                 => result.ret = <<"b","i","o","/">> \o call.pharm_id

\* the first candidate is null, the second and third differ, and the second
\* was chosen
C1_Witness ==
    /\ ResolveCalled
    /\ call.chembl1 = NaN
    /\ NonEmptyCandidate(call.chembl2)
    /\ NonEmptyCandidate(call.chembl3)
    /\ call.chembl2 # call.chembl3
    /\ result.ret = <<"b","i","o","/">> \o call.chembl2

-----------------------------------------------------------------------------
(* Compound types.                                                          *)

DrugSubTypes ==
    { <<"D","r","u","g">>, <<"D","r","u","g"," ","C","l","a","s","s">>,
      <<"P","r","o","d","r","u","g">> }

TypeCalled == call.fn = "get_compound_type" /\ result.done

AllDrugLabels(ls) == ls # <<>> /\ \A i \in 1..Len(ls) : ls[i] \in DrugSubTypes
NoDrugLabel(ls) == \A i \in 1..Len(ls) : ls[i] \notin DrugSubTypes

\* the markers of a typeOf value: each element without its namespace prefix
Markers(type_of) ==
    LET parts == Split(type_of, COMMA)
    IN  [i \in 1..Len(parts) |-> Join(Tail(Split(parts[i], COLON)), <<COLON>>)]

MarkerDrug == <<"D","r","u","g">>
MarkerChemicalCompound ==
    <<"C","h","e","m","i","c","a","l","C","o","m","p","o","u","n","d">>

LabelSet(ls) == {ls[i] : i \in 1..Len(ls)}

\* C3: get_compound_type yields the single marker Drug when every label is a
\* recognised drug sub-type, the single marker ChemicalCompound when none is,
\* and both markers, each once, when the list mixes the two kinds; lists with
\* the same set of labels give the same result.
C3_CompoundTypeMarkers ==
    TypeCalled =>
        LET ls == call.labels
            ms == Markers(result.ret)
        IN  /\ AllDrugLabels(ls) => ms = <<MarkerDrug>>
            /\ NoDrugLabel(ls) => ms = <<MarkerChemicalCompound>>
            /\ (~AllDrugLabels(ls) /\ ~NoDrugLabel(ls)) =>
                   /\ Len(ms) = 2
                   /\ {ms[1], ms[2]} = {MarkerDrug, MarkerChemicalCompound}
            /\ \A other \in SeqsUpTo(TypeLabels, MaxLabels) :
                   (other # <<>> /\ ls # <<>> /\ LabelSet(other) = LabelSet(ls))
                   => get_compound_type(Join(other, <<COMMA>>)) = result.ret

\* a list that repeats a drug sub-type next to another label has been typed
C3_Witness ==
    /\ TypeCalled
    /\ Len(call.labels) = 3
    /\ call.labels[1] = call.labels[3]
    /\ call.labels[1] \in DrugSubTypes
    /\ call.labels[2] \notin DrugSubTypes
    /\ Len(Markers(result.ret)) = 2

\* C10, as stated: the typeOf value is exactly 'dcs:Drug' for a drug type,
\* 'dcid:ChemicalCompound' otherwise, and 'dcid:ChemicalCompound,dcid:Drug'
\* for a list with both drug types and other types.
C10_DocumentedTypeOf ==
    TypeCalled =>
        LET ls == call.labels
        IN  /\ AllDrugLabels(ls) => result.ret = <<"d","c","s",":","D","r","u","g">>
            /\ NoDrugLabel(ls) =>
                   result.ret = <<"d","c","i","d",":","C","h","e","m","i","c","a",
                                  "l","C","o","m","p","o","u","n","d">>
            /\ (~AllDrugLabels(ls) /\ ~NoDrugLabel(ls)) =>
                   result.ret = <<"d","c","i","d",":","C","h","e","m","i","c","a",
                                  "l","C","o","m","p","o","u","n","d",",",
                                  "d","c","i","d",":","D","r","u","g">>

-----------------------------------------------------------------------------
(* Enum translation.                                                        *)

EnumCalled == call.fn = "get_enum" /\ result.done

\* C6: for a non-empty code list get_enum returns 'dcid:' + enum_dict[code]
\* for each code, in order, joined by commas, when every code is a key; with
\* any code that is no key the call raises and returns nothing; an empty list
\* gives the empty string.
C6_EnumFailsClosed ==
    EnumCalled =>
        LET cs == call.codes
            d == call.enum_dict
        IN  /\ cs = <<>> => ~result.raised /\ result.ret = EMPTY
            /\ (cs # <<>> /\ \A i \in 1..Len(cs) : cs[i] \in DOMAIN d) =>
                   /\ ~result.raised
                   /\ result.ret =
                        Join([i \in 1..Len(cs) |-> <<"d","c","i","d",":">> \o d[cs[i]]],
                             <<COMMA>>)
            /\ (\E i \in 1..Len(cs) : cs[i] \notin DOMAIN d) =>
                   result.raised /\ result.ret = EMPTY

\* a list whose first code is known and whose last is not has been refused
C6_Witness ==
    /\ EnumCalled
    /\ Len(call.codes) >= 2
    /\ call.codes[1] \in DOMAIN call.enum_dict
    /\ call.codes[Len(call.codes)] \notin DOMAIN call.enum_dict
    /\ result.raised

-----------------------------------------------------------------------------
(* Cross-references.                                                        *)

XrefCalled == call.fn = "get_xref_mcf" /\ result.done

Recognised(ps) == SelectSeq(ps, LAMBDA pair : pair.src \in DOMAIN GENE_XREF_PROP_DICT)
Unrecognised(ps) ==
    SelectSeq(ps, LAMBDA pair : pair.src \notin DOMAIN GENE_XREF_PROP_DICT)

XrefLine(label, value) == label \o <<COLON, SPACE, Q>> \o value \o <<Q, NL>>

\* C7, as stated: one line '<label>: "<value>"' per pair with a recognised
\* source, in input order, the value being everything after the first colon;
\* a pair with an unrecognised source is logged and skipped, nothing raised.
C7_ValueAfterFirstColon ==
    XrefCalled =>
        LET known == Recognised(call.pairs)
        IN  /\ ~result.raised
            /\ Len(result.printed) = Len(Unrecognised(call.pairs))
            /\ result.ret =
                 Join([i \in 1..Len(known) |->
                          XrefLine(GENE_XREF_PROP_DICT[known[i].src], known[i].val)],
                      EMPTY)

\* C7, amended: one line '<label>: "<value>"' per pair with a recognised
\* source, in input order, the value being everything after the first colon
\* (colons inside it kept) without its leading and trailing whitespace; a pair
\* with an unrecognised source is logged and skipped, nothing is raised and
\* the lines of the other pairs are still emitted.
C7_TrimmedValueAfterFirstColon ==
    XrefCalled =>
        LET known == Recognised(call.pairs)
        IN  /\ ~result.raised
            /\ Len(result.printed) = Len(Unrecognised(call.pairs))
            /\ result.ret =
                 Join([i \in 1..Len(known) |->
                          XrefLine(GENE_XREF_PROP_DICT[known[i].src],
                                   Strip(known[i].val))],
                      EMPTY)

\* an unrecognised pair followed by a recognised one whose value holds a colon
C7_Witness ==
    /\ XrefCalled
    /\ Len(call.pairs) = 2
    /\ call.pairs[1].src \notin DOMAIN GENE_XREF_PROP_DICT
    /\ call.pairs[2].src \in DOMAIN GENE_XREF_PROP_DICT
    /\ HasChar(call.pairs[2].val, COLON)
    /\ result.printed # <<>>
    /\ result.ret # EMPTY

-----------------------------------------------------------------------------
(* Gene rows.                                                               *)

\* a step of the gene pass that applies write_gene_row to the next row
GeneRowStep == pc = "genes" /\ row_i' = row_i + 1

\* a block without its identifier
WithoutDcid(block) ==
    [template |-> block.template,
     pv |-> [k \in DOMAIN block.pv \ {"dcid"} |-> block.pv[k]],
     xref_mcf |-> block.xref_mcf]

\* the step wrote two blocks, identified 'bio/hg19_' + symbol and
\* 'bio/hg38_' + symbol and otherwise equal, and stored that pair
TwoGeneBlocks(row) ==
    LET d19 == <<"b","i","o","/","h","g","1","9","_">> \o row["Symbol"]
        d38 == <<"b","i","o","/","h","g","3","8","_">> \o row["Symbol"]
        n == Len(mcf_file)
    IN  /\ Len(mcf_file') = n + 2
        /\ SubSeq(mcf_file', 1, n) = mcf_file
        /\ "dcid" \in DOMAIN mcf_file'[n + 1].pv
        /\ "dcid" \in DOMAIN mcf_file'[n + 2].pv
        /\ mcf_file'[n + 1].pv["dcid"] = d19
        /\ mcf_file'[n + 2].pv["dcid"] = d38
        /\ WithoutDcid(mcf_file'[n + 1]) = WithoutDcid(mcf_file'[n + 2])
        /\ row["PharmGKB Accession Id"] \in DOMAIN genes_pharm_to_dcid'
        /\ genes_pharm_to_dcid'[row["PharmGKB Accession Id"]] = <<d19, d38>>

\* C4, as stated: every gene row yields exactly two node blocks, identified
\* 'bio/hg19_' + symbol and 'bio/hg38_' + symbol and equal in every other
\* field, and the map entry stored for the row's id is this pair.
C4_TwoBlocksPerGeneRow ==
    [][GeneRowStep => TwoGeneBlocks(genes_tsv[row_i + 1])]_vars

\* C4, amended: every gene row with a non-empty symbol yields exactly two node
\* blocks, identified 'bio/hg19_' + symbol and 'bio/hg38_' + symbol and equal
\* in every other field, and the map entry stored for the row's id is this
\* pair; a gene row with an empty symbol yields no block and the entry stored
\* for its id is empty.
C4_TwoBlocksPerGeneSymbol ==
    [][GeneRowStep =>
        LET row == genes_tsv[row_i + 1]
        IN  /\ pc' = "genes"
            /\ row["Symbol"] # EMPTY => TwoGeneBlocks(row)
            /\ row["Symbol"] = EMPTY =>
                 /\ mcf_file' = mcf_file
                 /\ genes_pharm_to_dcid'[row["PharmGKB Accession Id"]] = EMPTY]_vars

\* a gene row with a symbol has just been written: its two blocks end the
\* file and its pair of identifiers is in the map
C4_Witness ==
    /\ pc = "genes"
    /\ row_i >= 1
    /\ Len(mcf_file) >= 2
    /\ LET row == genes_tsv[row_i]
           n == Len(mcf_file)
       IN  /\ row["Symbol"] # EMPTY
           /\ genes_pharm_to_dcid[row["PharmGKB Accession Id"]] =
                <<mcf_file[n - 1].pv["dcid"], mcf_file[n].pv["dcid"]>>
           /\ mcf_file[n - 1].pv["dcid"] # mcf_file[n].pv["dcid"]

-----------------------------------------------------------------------------
(* Relationship rows with an endpoint that is in no identifier map.         *)

\* a step of a relationship pass that applies write_relation_row to a row
RelationRowStep == pc \in {"drug_gene", "gene_drug"} /\ row_i' = row_i + 1

RelationRowAt(p, i) == IF p = "drug_gene" THEN drug_gene_df[i] ELSE gene_drug_df[i]

\* the ids of the Chemical and of the Gene of a relationship row
DrugIdOf(row) ==
    IF row["Entity1_type"] = Chemical THEN row["Entity1_id"] ELSE row["Entity2_id"]
GeneIdOf(row) ==
    IF row["Entity1_type"] = Gene THEN row["Entity1_id"] ELSE row["Entity2_id"]

Unresolvable(row) ==
    \/ DrugIdOf(row) \notin DOMAIN drugs_pharm_to_dcid
    \/ GeneIdOf(row) \notin DOMAIN genes_pharm_to_dcid

Warnings ==
    {"unrecognized drug pharm id: ", "unrecognized gene pharm id: "}

RelationBlocks == SelectSeq(mcf_file, LAMBDA b : b.template = "RELATION_TEMPLATE")
WarningLines == SelectSeq(stdout, LAMBDA line : line.msg \in Warnings)

RECURSIVE SumLen(_, _)
SumLen(rows, i) ==
    IF i > Len(rows) THEN 0
    ELSE (IF Unresolvable(rows[i]) THEN 0
          ELSE Len(genes_pharm_to_dcid[GeneIdOf(rows[i])])) + SumLen(rows, i + 1)

\* C5: a relationship row whose drug id or gene id is in no identifier map
\* writes nothing, logs one warning, raises nothing and leaves both maps as
\* they are, and the pass goes on with the next row: a run that ends has
\* logged one warning per such row and written the blocks of every other row.
C5_UnresolvableSkipped ==
    /\ [][(RelationRowStep /\ Unresolvable(RelationRowAt(pc, row_i + 1))) =>
             /\ mcf_file' = mcf_file
             /\ Len(stdout') = Len(stdout) + 1
             /\ stdout'[Len(stdout')].msg \in Warnings
             /\ SubSeq(stdout', 1, Len(stdout)) = stdout
             /\ pc' = pc
             /\ genes_pharm_to_dcid' = genes_pharm_to_dcid
             /\ drugs_pharm_to_dcid' = drugs_pharm_to_dcid]_vars
    /\ [](pc = "done" =>
             LET rows == drug_gene_df \o gene_drug_df
             IN  /\ Len(WarningLines) =
                      Cardinality({i \in 1..Len(rows) : Unresolvable(rows[i])})
                 /\ Len(RelationBlocks) = SumLen(rows, 1))

\* a run has ended in which a row with an unknown endpoint came before a row
\* whose blocks were written
C5_Witness ==
    /\ pc = "done"
    /\ Len(drug_gene_df) = 2
    /\ Unresolvable(drug_gene_df[1])
    /\ ~Unresolvable(drug_gene_df[2])
    /\ Len(WarningLines) = 1
    /\ Len(RelationBlocks) = 2

-----------------------------------------------------------------------------
(* Node emission.                                                           *)

EmitCalled ==
    call.fn \in {"get_gene_mcf", "get_drug_mcf", "get_relation_mcf"} /\ result.done

\* the placeholders a node must have
RequiredOf(fn) ==
    IF fn = "get_gene_mcf" THEN {"dcid"}
    ELSE IF fn = "get_drug_mcf" THEN {"dcid", "type"}
    ELSE {"dcid", "gene_dcid", "drug_dcid"}

\* an identifier the node needs was computed empty
RequiredComputedEmpty ==
    \/ call.fn = "get_gene_mcf" /\ call.gene_dcid = EMPTY
    \/ call.fn = "get_drug_mcf" /\ call.drug_dcid = EMPTY
    \/ call.fn = "get_relation_mcf"
         /\ (call.gene_dcid = EMPTY \/ call.drug_dcid = EMPTY)

\* C9: the mapping handed to the template filler holds no placeholder with an
\* empty value; a node block is returned only with every required placeholder
\* present and non-empty; a record whose required placeholder is empty fails
\* instead of giving a block.
C9_EmissionFailsClosed ==
    EmitCalled =>
        /\ \A i \in 1..Len(result.handed) :
              \A k \in DOMAIN result.handed[i] : result.handed[i][k] # EMPTY
        /\ ~result.raised =>
              /\ Len(result.handed) = 1
              /\ result.ret.pv = result.handed[1]
              /\ \A k \in RequiredOf(call.fn) :
                    k \in DOMAIN result.ret.pv /\ result.ret.pv[k] # EMPTY
        /\ RequiredComputedEmpty => result.raised /\ result.ret = NoMcf

\* a relationship whose gene identifier is empty was handed to the filler
\* without it and failed
C9_Witness ==
    /\ EmitCalled
    /\ call.fn = "get_relation_mcf"
    /\ call.gene_dcid = EMPTY
    /\ call.drug_dcid # EMPTY
    /\ Len(result.handed) = 1
    /\ "gene_dcid" \notin DOMAIN result.handed[1]
    /\ "drug_dcid" \in DOMAIN result.handed[1]
    /\ result.raised

-----------------------------------------------------------------------------
(* The order of the passes of a run.                                        *)

\* the position of a node block in the order genes, drugs, relationships
PassOf(block) ==
    IF block.template = "GENE_TEMPLATE" THEN 1
    ELSE IF block.template = "DRUG_TEMPLATE" THEN 2
    ELSE 3

\* the position of a stage of main in the order of the run
StageOf(p) ==
    IF p = "start" THEN 0
    ELSE IF p = "genes" THEN 1
    ELSE IF p = "drugs" THEN 2
    ELSE IF p = "drug_gene" THEN 3
    ELSE IF p = "gene_drug" THEN 4
    ELSE 5

\* the file is open from open() until close() or until the run aborts
FileOpen == pc \in {"genes", "drugs", "drug_gene", "gene_drug"}

\* C11: the file is opened once; in the file every gene block comes before
\* every drug block and every drug block before every relationship block; a
\* block is written only in the pass of its kind; the file is closed only
\* when both relationship passes have processed their last row; the gene map
\* changes only in the gene pass, the drug map only in the drug pass, and
\* neither changes in a relationship pass.
C11_PassOrdering ==
    /\ [](\A i, j \in 1..Len(mcf_file) :
             i < j => PassOf(mcf_file[i]) <= PassOf(mcf_file[j]))
    /\ [][/\ FileOpen' /\ ~FileOpen => pc = "start" /\ mcf_file' = <<>>
          /\ pc # "start" => pc' # "start"
          /\ StageOf(pc') # StageOf(pc) =>
                \/ pc' = "aborted"
                \/ StageOf(pc') = StageOf(pc) + 1
          /\ mcf_file' # mcf_file =>
                /\ FileOpen
                /\ Len(mcf_file') > Len(mcf_file)
                /\ SubSeq(mcf_file', 1, Len(mcf_file)) = mcf_file
                /\ \A i \in (Len(mcf_file) + 1)..Len(mcf_file') :
                      PassOf(mcf_file'[i]) =
                         (IF pc = "genes" THEN 1 ELSE IF pc = "drugs" THEN 2 ELSE 3)
          /\ pc' = "gene_drug" /\ pc = "drug_gene" => row_i = Len(drug_gene_df)
          /\ pc' = "done" /\ pc # "done" =>
                /\ pc = "gene_drug"
                /\ row_i = Len(gene_drug_df)
                /\ mcf_file' = mcf_file
          /\ genes_pharm_to_dcid' # genes_pharm_to_dcid => pc = "genes"
          /\ drugs_pharm_to_dcid' # drugs_pharm_to_dcid => pc = "drugs"]_vars

\* a run has ended whose file holds a gene block, a drug block and a
\* relationship block, and whose last pass processed a row
C11_Witness ==
    /\ pc = "done"
    /\ row_i >= 1
    /\ \E i, j, k \in 1..Len(mcf_file) :
          /\ i < j /\ j < k
          /\ PassOf(mcf_file[i]) = 1
          /\ PassOf(mcf_file[j]) = 2
          /\ PassOf(mcf_file[k]) = 3
    /\ genes_pharm_to_dcid # <<>>
    /\ drugs_pharm_to_dcid # <<>>

-----------------------------------------------------------------------------
(* Relationship rows whose endpoints are both in the identifier maps.       *)

\* an identifier without its leading 'bio/'
WithoutBio(dcid) ==
    IF Len(dcid) >= 4 /\ SubSeq(dcid, 1, 4) = <<"b","i","o","/">>
    THEN SubSeq(dcid, 5, Len(dcid))
    ELSE dcid

\* what identifies a relationship block: its own identifier, the two
\* identifiers it refers to, and the flags of the row it was made from
RelationIds(block) ==
    [template |-> block.template,
     pk |-> "pk_bool" \in DOMAIN block.pv,
     pd |-> "pd_bool" \in DOMAIN block.pv,
     dcid |-> IF "dcid" \in DOMAIN block.pv THEN block.pv["dcid"] ELSE EMPTY,
     drug_dcid |-> IF "drug_dcid" \in DOMAIN block.pv THEN block.pv["drug_dcid"]
                   ELSE EMPTY,
     gene_dcid |-> IF "gene_dcid" \in DOMAIN block.pv THEN block.pv["gene_dcid"]
                   ELSE EMPTY]

\* the blocks of a row with both endpoints in the maps: one for each gene
\* identifier stored for its gene
ExpectedRelationIds(row) ==
    LET drug == drugs_pharm_to_dcid[DrugIdOf(row)]
        genes == genes_pharm_to_dcid[GeneIdOf(row)]
    IN  [i \in 1..Len(genes) |->
            [template |-> "RELATION_TEMPLATE",
             pk |-> row["PK"] = <<"P","K">>,
             pd |-> row["PD"] = <<"P","D">>,
             dcid |-> <<"b","i","o","/","C","G","A","_">> \o WithoutBio(drug)
                         \o <<"_">> \o WithoutBio(genes[i]),
             drug_dcid |-> drug,
             gene_dcid |-> genes[i]]]

\* the blocks the step appended to the file
AppendedIds ==
    [i \in 1..(Len(mcf_file') - Len(mcf_file)) |->
        RelationIds(mcf_file'[Len(mcf_file) + i])]

\* an association or evidence code of the row is in no enum table
UnknownCode(row) ==
    \/ get_enum(row["Association"], ASSOCIATION_ENUM_DICT).raised
    \/ get_enum(row["Evidence"], EVIDENCE_ENUM_DICT).raised

\* the rows of the table a pass is about, in the order of the table
RECURSIVE RowsTyped(_, _, _)
RowsTyped(rows, type1, type2) ==
    IF rows = <<>> THEN <<>>
    ELSE (IF Head(rows)["Entity1_type"] = type1 /\ Head(rows)["Entity2_type"] = type2
          THEN <<Head(rows)>> ELSE <<>>) \o RowsTyped(Tail(rows), type1, type2)

\* the blocks of the rows of a pass, one row after the other
RECURSIVE ExpectedOfRows(_)
ExpectedOfRows(rows) ==
    IF rows = <<>> THEN <<>>
    ELSE (IF Unresolvable(Head(rows)) THEN <<>> ELSE ExpectedRelationIds(Head(rows)))
            \o ExpectedOfRows(Tail(rows))

\* a relationship pass processes the rows of its type pair, in table order
PassRows ==
    /\ pc = "drug_gene" => drug_gene_df = RowsTyped(relations_tsv, Chemical, Gene)
    /\ pc = "gene_drug" => gene_drug_df = RowsTyped(relations_tsv, Gene, Chemical)

\* a run that ended wrote the blocks of the (Chemical, Gene) rows, then those
\* of the (Gene, Chemical) rows, each row once, and none for any other row
RowsOnce ==
    pc = "done" =>
        [i \in 1..Len(RelationBlocks) |-> RelationIds(RelationBlocks[i])] =
            ExpectedOfRows(RowsTyped(relations_tsv, Chemical, Gene))
               \o ExpectedOfRows(RowsTyped(relations_tsv, Gene, Chemical))

\* C12, as stated: the drug id of a (Chemical, Gene) row is Entity1_id and
\* its gene id Entity2_id, of a (Gene, Chemical) row the other way round; a
\* row of another type pair gives no block; a row with both endpoints in the
\* maps gives two blocks, one per gene identifier stored, identified
\* 'bio/CGA_' + drug identifier without 'bio/' + '_' + gene identifier
\* without 'bio/'; no row is processed twice.
C12_TwoBlocksPerResolvableRow ==
    /\ [](PassRows /\ RowsOnce)
    /\ [][(RelationRowStep /\ ~Unresolvable(RelationRowAt(pc, row_i + 1))) =>
             LET row == RelationRowAt(pc, row_i + 1)
             IN  /\ SubSeq(mcf_file', 1, Len(mcf_file)) = mcf_file
                 /\ AppendedIds = ExpectedRelationIds(row)
                 /\ Len(AppendedIds) = 2]_vars

\* C12, amended: as stated, except that a row with both endpoints in the maps
\* gives one block per gene identifier stored for its gene, which is two for
\* a gene with a symbol and none for a gene without, and that a row with an
\* association or evidence code in no enum table gives no block and ends the
\* run.
C12_BlocksPerStoredGeneId ==
    /\ [](PassRows /\ RowsOnce)
    /\ [][(RelationRowStep /\ ~Unresolvable(RelationRowAt(pc, row_i + 1))) =>
             LET row == RelationRowAt(pc, row_i + 1)
                 genes == genes_pharm_to_dcid[GeneIdOf(row)]
             IN  /\ Len(genes) \in {0, 2}
                 /\ Len(genes) = 2 <=> genes # EMPTY
                 /\ IF UnknownCode(row) /\ genes # EMPTY
                    THEN mcf_file' = mcf_file /\ pc' = "aborted"
                    ELSE /\ SubSeq(mcf_file', 1, Len(mcf_file)) = mcf_file
                         /\ AppendedIds = ExpectedRelationIds(row)
                         /\ pc' = pc]_vars

\* a (Gene, Chemical) row with both endpoints in the maps has just been
\* written: its two blocks end the file, the drug taken from Entity2_id
C12_Witness ==
    /\ pc = "gene_drug"
    /\ row_i >= 1
    /\ Len(mcf_file) >= 2
    /\ LET row == gene_drug_df[row_i]
           n == Len(mcf_file)
       IN  /\ row["Entity1_type"] = Gene
           /\ ~Unresolvable(row)
           /\ Len(ExpectedRelationIds(row)) = 2
           /\ <<RelationIds(mcf_file[n - 1]), RelationIds(mcf_file[n])>> =
                 ExpectedRelationIds(row)
           /\ mcf_file[n].pv["drug_dcid"] = drugs_pharm_to_dcid[row["Entity2_id"]]
           /\ mcf_file[n].pv["dcid"] =
                 <<"b","i","o","/","C","G","A","_">>
                    \o WithoutBio(drugs_pharm_to_dcid[row["Entity2_id"]]) \o <<"_">>
                    \o WithoutBio(genes_pharm_to_dcid[row["Entity1_id"]][2])

-----------------------------------------------------------------------------
(* The identifiers a relationship block refers to.                          *)

\* a block of the template, identified dcid, is among the first n of the file
WrittenBefore(n, template, dcid) ==
    \E j \in 1..(n - 1) :
        /\ mcf_file[j].template = template
        /\ "dcid" \in DOMAIN mcf_file[j].pv
        /\ mcf_file[j].pv["dcid"] = dcid

\* C13: every relationship block in the file refers to a drug identifier and
\* to a gene identifier, and for each of the two a drug block, a gene block,
\* with that identifier comes earlier in the file; rows that share an
\* accession id, the later one replacing the map entry, are among the runs.
C13_ReferentialIntegrity ==
    \A i \in 1..Len(mcf_file) :
        mcf_file[i].template = "RELATION_TEMPLATE" =>
            /\ "drug_dcid" \in DOMAIN mcf_file[i].pv
            /\ "gene_dcid" \in DOMAIN mcf_file[i].pv
            /\ WrittenBefore(i, "DRUG_TEMPLATE", mcf_file[i].pv["drug_dcid"])
            /\ WrittenBefore(i, "GENE_TEMPLATE", mcf_file[i].pv["gene_dcid"])

\* a run has ended in which two gene rows of different symbols shared an
\* accession id, and the file holds a relationship block that refers to an
\* identifier of the later row
C13_Witness ==
    /\ pc = "done"
    /\ \E a, b \in 1..Len(genes_tsv) :
          /\ a < b
          /\ genes_tsv[a]["PharmGKB Accession Id"] = genes_tsv[b]["PharmGKB Accession Id"]
          /\ genes_tsv[a]["Symbol"] # genes_tsv[b]["Symbol"]
          /\ genes_tsv[a]["Symbol"] # EMPTY
          /\ \E i \in 1..Len(mcf_file) :
                /\ mcf_file[i].template = "RELATION_TEMPLATE"
                /\ mcf_file[i].pv["gene_dcid"] =
                      <<"b","i","o","/","h","g","1","9","_">> \o genes_tsv[b]["Symbol"]
                /\ WrittenBefore(i, "GENE_TEMPLATE",
                      <<"b","i","o","/","h","g","1","9","_">> \o genes_tsv[a]["Symbol"])

=============================================================================
